---------------------------- MODULE Spec2Model ----------------------------
(***************************************************************************)
(* The error taxonomy of the IMAP client (src/error.rs): the two enums     *)
(* Error and ParseError, the From conversions that build an Error out of  *)
(* a lower-level failure, and the description / cause / Display accessors. *)
(*                                                                         *)
(* One error value is in flight at a time: it is built at the layer that   *)
(* detects the failure (a ParseError at the parsing layer, an Error        *)
(* elsewhere), a ParseError is lifted into Error::Parse, the caller calls  *)
(* the accessors on it and finally drops it.  The rendering of the last    *)
(* dropped value is kept so that two values can be compared.               *)
(***************************************************************************)
EXTENDS Naturals, Sequences, FiniteSets

VARIABLES
    perr,    \* the ParseError in flight at the parsing layer, or None
    err,     \* the Error in flight, or None
    origin,  \* the constructor or conversion that built the value, and its input
    seen,    \* per accessor, the result of its first call on the value in flight
    out,     \* the result of the latest accessor call, or None
    shown    \* the last dropped Error and its Display text, or None

vars == <<perr, err, origin, seen, out, shown>>

\* Longest sequence of raw response lines the model enumerates.
MaxLines == 2

---------------------------------------------------------------------------
\* Option<T>
None == [tag |-> "None"]

Some(x) == [tag |-> "Some", ref |-> x]

\* std::io::Error, as far as the accessors read it: its description() and
\* its Display text.  An OS error renders the OS message, a custom error
\* renders whatever message it was given, the empty one included.
IoErrors ==
    { [description |-> "connection reset",
       display     |-> "Connection reset by peer (os error 104)"],
      [description |-> "broken pipe", display |-> "broken pipe"],
      [description |-> "", display |-> ""] }

\* openssl::ssl::HandshakeError<TcpStream>: its description() and Display text.
SslErrors ==
    { [description |-> "the handshake failed",
       display     |-> "the handshake failed: unknown protocol"],
      [description |-> "stream setup failed",
       display     |-> "stream setup failed: no shared cipher"] }

\* std::string::FromUtf8Error: the offending bytes and how far they were valid.
FromUtf8Errors ==
    { [bytes |-> <<255>>, valid_up_to |-> 0],
      [bytes |-> <<65, 255>>, valid_up_to |-> 1] }

\* Raw response lines.
LineTexts == {"BAD invalid command", "NO denied"}

\* Vec<String>: every sequence of at most MaxLines lines.
LineSeqs == UNION { [1..n -> LineTexts] : n \in 0..MaxLines }

\* The String carried by ParseError::Authentication.
AuthMessages == {"+", "+ Z28="}

---------------------------------------------------------------------------
\* enum ParseError: one constructor per variant.
FromUtf8(d) == [tag |-> "FromUtf8", e |-> d]

StatusResponse(lines) == [tag |-> "StatusResponse", lines |-> lines]

Capability(lines) == [tag |-> "Capability", lines |-> lines]

Authentication(msg) == [tag |-> "Authentication", msg |-> msg]

ParseErrors ==
    { FromUtf8(d) : d \in FromUtf8Errors }
        \cup { StatusResponse(l) : l \in LineSeqs }
        \cup { Capability(l) : l \in LineSeqs }
        \cup { Authentication(m) : m \in AuthMessages }

\* enum Error: one constructor per variant.
Io(e) == [tag |-> "Io", e |-> e]

Ssl(e) == [tag |-> "Ssl", e |-> e]

\* Faulty BadResponse: stores the lines in reverse order.
BadResponse_Reversed(lines) ==
    [tag |-> "BadResponse",
     lines |-> [i \in 1..Len(lines) |-> lines[Len(lines) + 1 - i]]]

BadResponse(lines) == [tag |-> "BadResponse", lines |-> lines]

NoResponse(lines) == [tag |-> "NoResponse", lines |-> lines]

Parse(p) == [tag |-> "Parse", p |-> p]

Errors ==
    { Io(e) : e \in IoErrors }
        \cup { Ssl(e) : e \in SslErrors }
        \cup { BadResponse(l) : l \in LineSeqs }
        \cup { NoResponse(l) : l \in LineSeqs }
        \cup { Parse(p) : p \in ParseErrors }

\* impl From<IoError> for Error
From_IoError(e) == Io(e)

\* impl From<SslError<TcpStream>> for Error
From_SslError(e) == Ssl(e)

\* Faulty From<FromUtf8Error>: keeps a message and discards the failure.
From_FromUtf8Error_Stringified(d) == Parse(Authentication("invalid utf-8"))

\* impl From<FromUtf8Error> for Error
From_FromUtf8Error(d) == Parse(FromUtf8(d))

---------------------------------------------------------------------------
\* Faulty ParseError::description: the FromUtf8 arm has the text of the next arm.
ParseError_description_Slip(p) ==
    CASE p.tag = "FromUtf8"       -> "Unable to parse status response"
      [] p.tag = "StatusResponse" -> "Unable to parse status response"
      [] p.tag = "Capability"     -> "Unable to parse capability response"
      [] p.tag = "Authentication" -> "Unable to parse authentication response"

\* <ParseError as StdError>::description
ParseError_description(p) ==
    CASE p.tag = "FromUtf8"       -> "Unable to decode the response as UTF-8."
      [] p.tag = "StatusResponse" -> "Unable to parse status response"
      [] p.tag = "Capability"     -> "Unable to parse capability response"
      [] p.tag = "Authentication" -> "Unable to parse authentication response"

\* <ParseError as StdError>::cause
ParseError_cause(p) == None

\* <ParseError as fmt::Display>::fmt: the text written to the formatter.
ParseError_fmt(p) == ParseError_description(p)

\* Faulty Error::description: a constant for Parse instead of the nested text.
Error_description_Flat(e) ==
    CASE e.tag = "Io"          -> e.e.description
      [] e.tag = "Ssl"         -> e.e.description
      [] e.tag = "Parse"       -> "Parse Error"
      [] e.tag = "BadResponse" -> "Bad Response"
      [] e.tag = "NoResponse"  -> "No Response"

\* Faulty Error::description: no text for NoResponse.
Error_description_EmptyNo(e) ==
    CASE e.tag = "Io"          -> e.e.description
      [] e.tag = "Ssl"         -> e.e.description
      [] e.tag = "Parse"       -> ParseError_description(e.p)
      [] e.tag = "BadResponse" -> "Bad Response"
      [] e.tag = "NoResponse"  -> ""

\* <Error as StdError>::description
Error_description(e) ==
    CASE e.tag = "Io"          -> e.e.description
      [] e.tag = "Ssl"         -> e.e.description
      [] e.tag = "Parse"       -> ParseError_description(e.p)
      [] e.tag = "BadResponse" -> "Bad Response"
      [] e.tag = "NoResponse"  -> "No Response"

\* Faulty Error::cause: chains the decoding failure of a Parse(FromUtf8).
Error_cause_Chained(e) ==
    CASE e.tag = "Io"  -> Some(e.e)
      [] e.tag = "Ssl" -> Some(e.e)
      [] e.tag = "Parse" /\ e.p.tag = "FromUtf8" -> Some(e.p.e)
      [] OTHER         -> None

\* Faulty Error::cause: the Ssl arm is missing.
Error_cause_NoSsl(e) ==
    CASE e.tag = "Io"  -> Some(e.e)
      [] OTHER         -> None

\* <Error as StdError>::cause
Error_cause(e) ==
    CASE e.tag = "Io"  -> Some(e.e)
      [] e.tag = "Ssl" -> Some(e.e)
      [] OTHER         -> None

\* Faulty Error::fmt: one rendering path, the description, for every variant.
Error_fmt_Unified(e) == Error_description(e)

\* Faulty Error::fmt: a reply is rendered with its first raw line.
Error_fmt_WithLines(e) ==
    CASE e.tag = "Io"  -> e.e.display
      [] e.tag = "Ssl" -> e.e.display
      [] e.tag \in {"BadResponse", "NoResponse"} /\ e.lines # <<>> -> e.lines[1]
      [] OTHER         -> Error_description(e)

\* <Error as fmt::Display>::fmt: the text written to the formatter.
Error_fmt(e) ==
    CASE e.tag = "Io"  -> e.e.display
      [] e.tag = "Ssl" -> e.e.display
      [] OTHER         -> Error_description(e)

\* The lower-level failure a value carries, as a caller's match on the
\* public variants yields it; None for the variants that carry none.
Wrapped(v) ==
    CASE v.tag \in {"Io", "Ssl", "FromUtf8"} -> Some(v.e)
      [] v.tag = "Parse" /\ v.p.tag = "FromUtf8" -> Some(v.p.e)
      [] OTHER -> None

---------------------------------------------------------------------------
NothingSeen == [description |-> None, cause |-> None, fmt |-> None]

\* An accessor returned res: the latest result, and the first one per accessor.
Returned(fn, res) ==
    /\ out' = [tag |-> "Call", fn |-> fn, res |-> res]
    /\ seen' = IF seen[fn] = None THEN [seen EXCEPT ![fn] = Some(res)] ELSE seen

\* A fresh value comes into flight: nothing has been called on it yet.
Fresh(by, input) ==
    /\ perr = None
    /\ err = None
    /\ origin' = [by |-> by, input |-> input]
    /\ seen' = NothingSeen
    /\ out' = None
    /\ UNCHANGED shown

Init ==
    /\ perr = None
    /\ err = None
    /\ origin = None
    /\ seen = NothingSeen
    /\ out = None
    /\ shown = None

\* A transport failure is converted: Error::from(e).
Convert_IoError ==
    \E e \in IoErrors :
        /\ Fresh("From<IoError>", e)
        /\ err' = From_IoError(e)
        /\ UNCHANGED perr

\* A handshake failure is converted: Error::from(e).
Convert_SslError ==
    \E e \in SslErrors :
        /\ Fresh("From<SslError>", e)
        /\ err' = From_SslError(e)
        /\ UNCHANGED perr

\* A decoding failure is converted straight into an Error: Error::from(d).
Convert_FromUtf8Error ==
    \E d \in FromUtf8Errors :
        /\ Fresh("From<FromUtf8Error>", d)
        /\ err' = From_FromUtf8Error(d)
        /\ UNCHANGED perr

\* The server answered BAD: Error::BadResponse(lines).
Reply_Bad ==
    \E l \in LineSeqs :
        /\ Fresh("BadResponse", l)
        /\ err' = BadResponse(l)
        /\ UNCHANGED perr

\* The server answered NO: Error::NoResponse(lines).
Reply_No ==
    \E l \in LineSeqs :
        /\ Fresh("NoResponse", l)
        /\ err' = NoResponse(l)
        /\ UNCHANGED perr

\* The parsing layer builds a ParseError::FromUtf8(d).
Fail_FromUtf8 ==
    \E d \in FromUtf8Errors :
        /\ Fresh("FromUtf8", d)
        /\ perr' = FromUtf8(d)
        /\ UNCHANGED err

\* The parsing layer builds a ParseError::StatusResponse(lines).
Fail_StatusResponse ==
    \E l \in LineSeqs :
        /\ Fresh("StatusResponse", l)
        /\ perr' = StatusResponse(l)
        /\ UNCHANGED err

\* The parsing layer builds a ParseError::Capability(lines).
Fail_Capability ==
    \E l \in LineSeqs :
        /\ Fresh("Capability", l)
        /\ perr' = Capability(l)
        /\ UNCHANGED err

\* The parsing layer builds a ParseError::Authentication(msg).
Fail_Authentication ==
    \E m \in AuthMessages :
        /\ Fresh("Authentication", m)
        /\ perr' = Authentication(m)
        /\ UNCHANGED err

\* The ParseError is moved into Error::Parse on its way up.
Lift ==
    /\ perr # None
    /\ err' = Parse(perr)
    /\ perr' = None
    /\ out' = None
    /\ UNCHANGED <<origin, seen, shown>>

\* description() is called on the ParseError.
Call_ParseError_description ==
    /\ perr # None
    /\ Returned("description", ParseError_description(perr))
    /\ UNCHANGED <<perr, err, origin, shown>>

\* cause() is called on the ParseError.
Call_ParseError_cause ==
    /\ perr # None
    /\ Returned("cause", ParseError_cause(perr))
    /\ UNCHANGED <<perr, err, origin, shown>>

\* The ParseError is rendered with Display.
Call_ParseError_fmt ==
    /\ perr # None
    /\ Returned("fmt", ParseError_fmt(perr))
    /\ UNCHANGED <<perr, err, origin, shown>>

\* Faulty description(): drains the raw lines of the value it describes.
Call_Error_description_Draining ==
    /\ err # None
    /\ Returned("description", Error_description(err))
    /\ err' = IF err.tag \in {"BadResponse", "NoResponse"}
              THEN [err EXCEPT !.lines = <<>>]
              ELSE err
    /\ UNCHANGED <<perr, origin, shown>>

\* description() is called on the Error.
Call_Error_description ==
    /\ err # None
    /\ Returned("description", Error_description(err))
    /\ UNCHANGED <<perr, err, origin, shown>>

\* cause() is called on the Error.
Call_Error_cause ==
    /\ err # None
    /\ Returned("cause", Error_cause(err))
    /\ UNCHANGED <<perr, err, origin, shown>>

\* The Error is rendered with Display.
Call_Error_fmt ==
    /\ err # None
    /\ Returned("fmt", Error_fmt(err))
    /\ UNCHANGED <<perr, err, origin, shown>>

\* The caller is done with the Err of the Result; what it rendered, if it
\* rendered the value, stays on its log.
Drop ==
    /\ err # None
    /\ shown' = IF seen.fmt = None THEN shown
                ELSE [tag |-> "Shown", val |-> err, text |-> seen.fmt.ref]
    /\ err' = None
    /\ origin' = None
    /\ seen' = NothingSeen
    /\ out' = None
    /\ UNCHANGED perr

Next ==
    \/ Convert_IoError
    \/ Convert_SslError
    \/ Convert_FromUtf8Error
    \/ Reply_Bad
    \/ Reply_No
    \/ Fail_FromUtf8
    \/ Fail_StatusResponse
    \/ Fail_Capability
    \/ Fail_Authentication
    \/ Lift
    \/ Call_ParseError_description
    \/ Call_ParseError_cause
    \/ Call_ParseError_fmt
    \/ Call_Error_description
    \/ Call_Error_cause
    \/ Call_Error_fmt
    \/ Drop

Spec == Init /\ [][Next]_vars

TypeOK ==
    /\ perr \in ParseErrors \cup {None}
    /\ err \in Errors \cup {None}
    /\ perr = None \/ err = None


---------------------------------------------------------------------------
\* The value in flight, at whichever layer it is.
InFlight == IF err # None THEN err ELSE perr

\* out holds the result of a call of accessor fn.
Called(fn) == out # None /\ out.fn = fn

\* The variant of a value, the nested one for a Parse.
VariantOf(v) == IF v.tag = "Parse" THEN v.p.tag ELSE v.tag

\* The fixed description text of each variant that wraps no foreign failure,
\* as the taxonomy table of the specification (section 7) lists it.
TaxonomyText(v) ==
    CASE VariantOf(v) = "BadResponse"    -> "Bad Response"
      [] VariantOf(v) = "NoResponse"     -> "No Response"
      [] VariantOf(v) = "FromUtf8"       -> "Unable to decode the response as UTF-8."
      [] VariantOf(v) = "StatusResponse" -> "Unable to parse status response"
      [] VariantOf(v) = "Capability"     -> "Unable to parse capability response"
      [] VariantOf(v) = "Authentication" -> "Unable to parse authentication response"

\* What a variant carries: raw lines, a message or a lower-level failure.
Payload(v) ==
    LET w == IF v.tag = "Parse" THEN v.p ELSE v
    IN  CASE w.tag \in {"BadResponse", "NoResponse", "StatusResponse", "Capability"}
               -> w.lines
          [] w.tag = "Authentication" -> w.msg
          [] w.tag \in {"Io", "Ssl", "FromUtf8"} -> w.e

Wrapping == {"Io", "Ssl"}

---------------------------------------------------------------------------
\* C1: a server reply built from kind Bad or No and lines L is the variant
\* of that kind and carries exactly L: same length, same order, same
\* content, nothing reordered or deduplicated.
C1_ReplyKeepsKindAndLines ==
    (origin # None /\ origin.by \in {"BadResponse", "NoResponse"}) =>
        /\ perr = None
        /\ err.tag = origin.by
        /\ Len(err.lines) = Len(origin.input)
        /\ \A i \in 1..Len(origin.input) : err.lines[i] = origin.input[i]
        /\ err.lines = origin.input

\* A reply with a repeated line, and the empty reply, have been built.
C1_Witness ==
    /\ err # None /\ err.tag = "NoResponse"
    /\ Len(err.lines) = 2 /\ err.lines[1] = err.lines[2]
    /\ shown # None /\ shown.val.tag = "BadResponse" /\ shown.val.lines = <<>>

\* C2: a decoding failure D routed through the conversion into the
\* top-level error is Parse(FromUtf8(D)) at once, with no ParseError left at
\* the parsing layer, and its description is the UTF-8 text.
C2_Utf8LiftedInOneStep ==
    (origin # None /\ origin.by = "From<FromUtf8Error>") =>
        /\ perr = None
        /\ err = [tag |-> "Parse", p |-> [tag |-> "FromUtf8", e |-> origin.input]]
        /\ Called("description") =>
               out.res = "Unable to decode the response as UTF-8."

C2_Witness ==
    /\ origin # None /\ origin.by = "From<FromUtf8Error>"
    /\ Called("description")

\* C3: cause() is present exactly for Io and Ssl; it is None for
\* BadResponse, NoResponse and every Parse, Parse(FromUtf8(D)) included,
\* and for every ParseError.
C3_CauseOnlyForWrappers ==
    Called("cause") =>
        IF err # None
        THEN (out.res # None) <=> (err.tag \in {"Io", "Ssl"})
        ELSE out.res = None

C3_Witness ==
    /\ err # None /\ err.tag = "Parse" /\ err.p.tag = "FromUtf8"
    /\ Called("cause")

\* C4: converting a transport failure e yields Io and cause() returns e;
\* converting a handshake failure e yields Ssl and cause() returns e.
C4_WrapThenCauseIsIdentity ==
    /\ (origin # None /\ origin.by = "From<IoError>") =>
           /\ err.tag = "Io"
           /\ Called("cause") => out.res = [tag |-> "Some", ref |-> origin.input]
    /\ (origin # None /\ origin.by = "From<SslError>") =>
           /\ err.tag = "Ssl"
           /\ Called("cause") => out.res = [tag |-> "Some", ref |-> origin.input]

C4_Witness ==
    /\ origin # None /\ origin.by = "From<SslError>"
    /\ Called("cause")

\* C5: description() of each variant that wraps no foreign failure is the
\* fixed text of the taxonomy table, and description() of Parse(p) is
\* description() of p.
C5_FixedDescriptions ==
    (Called("description") /\ InFlight.tag \notin Wrapping) =>
        /\ out.res = TaxonomyText(InFlight)
        /\ err # None /\ err.tag = "Parse" =>
               out.res = ParseError_description(err.p)

C5_Witness ==
    /\ err = [tag |-> "Parse", p |-> [tag |-> "Authentication", msg |-> "+"]]
    /\ Called("description")


\* C6 as stated: description() returns non-empty text for every variant of
\* both enums, whatever payload the variant carries.
C6_DescriptionNeverEmpty == Called("description") => out.res # ""

\* C6 as amended: description() returns for every variant of both enums;
\* the text is non-empty for BadResponse, NoResponse and every Parse and
\* ParseError, and for Io and Ssl it is the wrapped failure's own
\* description, empty exactly when that one is.
C6_DescriptionTotal ==
    /\ (err # None /\ seen.description # None) =>
           /\ err.tag \notin Wrapping => seen.description.ref # ""
           /\ err.tag \in Wrapping =>
                  /\ seen.description.ref = err.e.description
                  /\ seen.description.ref = "" <=> origin.input.description = ""
    /\ (perr # None /\ seen.description # None) =>
           seen.description.ref # ""

\* description() has returned the empty text of the wrapped transport failure.
C6_Witness ==
    /\ err # None /\ err.tag = "Io" /\ err.e.description = ""
    /\ Called("description") /\ out.res = ""

\* C7: for Io and Ssl both description() and the Display rendering are the
\* wrapped failure's own text, not a constant: two values of one variant
\* wrapping failures with different texts render differently.
C7_WrappersDelegate ==
    (err # None /\ err.tag \in Wrapping) =>
        /\ Called("description") => out.res = origin.input.description
        /\ Called("fmt") =>
               /\ out.res = origin.input.display
               /\ (shown # None /\ shown.val.tag = err.tag
                     /\ shown.val.e.display # err.e.display)
                      => shown.text # out.res

C7_Witness ==
    /\ err # None /\ err.tag = "Io" /\ err.e.description = "connection reset"
    /\ shown # None /\ shown.val.tag = "Io" /\ shown.val # err
    /\ Called("fmt")

\* C8: a value built from a lower-level failure (transport, handshake,
\* decoding) still carries that failure, at the parsing layer and after
\* every lifting step.
C8_WrappedFailureKept ==
    (origin # None /\ origin.by \in
         {"From<IoError>", "From<SslError>", "From<FromUtf8Error>", "FromUtf8"}) =>
        Wrapped(InFlight) = [tag |-> "Some", ref |-> origin.input]

\* A decoding failure wrapped at the parsing layer and then lifted.
C8_Witness ==
    /\ origin # None /\ origin.by = "FromUtf8"
    /\ err # None /\ err.tag = "Parse"
    /\ Called("cause")

\* C9: an accessor call changes neither the value nor where it came from,
\* and returns what its first call returned; lifting a ParseError puts it,
\* unchanged, inside the Parse variant.
C9_NeverMutated ==
    [][ /\ out' # None =>
              /\ perr' = perr
              /\ err' = err
              /\ origin' = origin
              /\ out'.res = seen'[out'.fn].ref
        /\ (perr # None /\ perr' = None) =>
              /\ err'.tag = "Parse"
              /\ err'.p = perr
              /\ origin' = origin ]_vars

\* Every accessor has been called on a lifted ParseError carrying two lines.
C9_Witness ==
    /\ err # None /\ err.tag = "Parse" /\ err.p.tag = "StatusResponse"
    /\ Len(err.p.lines) = 2
    /\ seen.description # None /\ seen.cause # None /\ seen.fmt # None
    /\ Called("fmt")

\* C10: the Display rendering of BadResponse, NoResponse, Parse and of a
\* ParseError is the fixed description text of its variant: two values of
\* one variant with different payloads render alike, and the payload is
\* still on the value.
C10_RenderingIgnoresPayload ==
    (Called("fmt") /\ InFlight.tag \notin Wrapping) =>
        /\ out.res = TaxonomyText(InFlight)
        /\ (err # None /\ shown # None /\ VariantOf(shown.val) = VariantOf(err))
              => shown.text = out.res
        /\ Payload(InFlight) = origin.input

\* Two BAD replies with different lines have both been rendered.
C10_Witness ==
    /\ err # None /\ err.tag = "BadResponse"
    /\ shown # None /\ shown.val.tag = "BadResponse"
    /\ shown.val.lines # err.lines
    /\ Called("fmt")

=============================================================================
